---- MODULE Spec2Model ----
(***************************************************************************)
(* State-machine model of the HybridProductivityFHE contract               *)
(* (src/unnamed/part_000).  One action per external function.  Each        *)
(* function has a ...Result operator giving the outcome of a call in the   *)
(* current state ("ok" or the revert reason); a reverted call changes      *)
(* nothing.  The FHE library and the decryption oracle are the environment.*)
(*                                                                         *)
(* The second half models the record manager of the web frontend           *)
(* (src/frontend/web/src/App.tsx): one browser per account, each with its  *)
(* own React state, all talking to one key-value store.  An async handler  *)
(* is one action per await: the step runs from the completion of one       *)
(* contract call to the start of the next, and takes the call's outcome as *)
(* its input.  The store's setData/getData/isAvailable are not part of     *)
(* the sources; a call that returns has taken effect.                      *)
(***************************************************************************)
EXTENDS Integers, Sequences, FiniteSets, TLC

\* ------------------------------------------------------------------ bounds
MaxMetrics == 2

MaxRequests == 2

\* submitRecord calls started, all browsers together
MaxSubmits == 2

\* timeouts pending in one browser, those of calls in flight included
MaxTimers == 2

\* ------------------------------------------------------------- value sets
\* msg.sender of a call to the function marked onlyManager; the other
\* functions never look at their caller, recorded as "anyone"
Accounts == {"manager", "employee"}

\* category strings a caller may pass; the contract itself only ever uses "TaskCategory"
Categories == {"TaskCategory", "Remote"}

\* keys of the metric mappings that the model tracks: 0 and the ids that can be assigned
MetricIds == 0..MaxMetrics

\* request ids a callback may be called with: the issuable ones and one never issued
RequestIds == 0..MaxRequests

\* ------------------------------------------------------- euint32 and uint32
\* a uint32 is kept as two 16-bit halves <<hi, lo>> so that arithmetic wraps at 2^32
Half == 2^16

U32(n) == <<(n \div Half) % Half, n % Half>>

ToUint(p) == p[1] * Half + p[2]

Add32(a, b) ==
    LET lo == a[2] + b[2]
        hi == a[1] + b[1] + (lo \div Half)
    IN  <<hi % Half, lo % Half>>

\* an euint32 handle: the zero handle, or a ciphertext of a uint32 plaintext
Uninit == [init |-> FALSE, ct |-> U32(0)]

Enc(p) == [init |-> TRUE, ct |-> p]

isInitialized(e) == e.init

asEuint32(n) == Enc(U32(n))

\* FHE.add treats an uninitialized operand as an encryption of 0
FHEadd(a, b) == Enc(Add32(a.ct, b.ct))

\* what the decryption oracle obtains for a handle, as the uint256 it ABI-encodes
Decrypt(e) == ToUint(e.ct)

\* keccak256(abi.encodePacked(category)): injective on the strings used, never bytes32(0)
keccak256(s) ==
    CASE s = "TaskCategory" -> 7001
      [] s = "Remote" -> 7002
      [] OTHER -> 7003

\* the (output, hours, tasks) ciphertext triples a caller may submit
MetricInputs ==
    { <<asEuint32(3), asEuint32(5), asEuint32(7)>>,
      <<asEuint32(5), asEuint32(5), asEuint32(3)>> }

\* ------------------------------------------------------------------- state
VARIABLES
    metricCount,            \* uint256 public metricCount
    encryptedMetrics,       \* mapping(uint256 => EncryptedMetric)
    revealedMetrics,        \* mapping(uint256 => RevealedMetric)
    encryptedTaskCounters,  \* mapping(string => euint32)
    taskCategories,         \* string[]
    requestToMetricId,      \* mapping(uint256 => uint256)
    requestToCategoryHash,  \* mapping(uint256 => bytes32)
    decryptionRequests,     \* the FHE library's requests, in the order issued
    blockTimestamp,         \* block.timestamp of the latest submission's block
    revealedEvents,         \* per metric id, the number of MetricRevealed(id) emitted
    last                    \* the latest call that went through, and its event

storage == <<metricCount, encryptedMetrics, revealedMetrics, encryptedTaskCounters,
             taskCategories, requestToMetricId, requestToCategoryHash>>

vars == <<metricCount, encryptedMetrics, revealedMetrics, encryptedTaskCounters,
          taskCategories, requestToMetricId, requestToCategoryHash,
          decryptionRequests, blockTimestamp, revealedEvents, last>>

NoMetric ==
    [id |-> 0, encryptedOutput |-> Uninit, encryptedHours |-> Uninit,
     encryptedTasks |-> Uninit, timestamp |-> 0]

NoReveal == [output |-> 0, hours |-> 0, tasks |-> 0, revealed |-> FALSE]

Call(op, caller, arg, event) == [op |-> op, caller |-> caller, arg |-> arg, event |-> event]

\* the contract's storage after deployment
Deployed ==
    /\ metricCount = 0
    /\ encryptedMetrics = [i \in MetricIds |-> NoMetric]
    /\ revealedMetrics = [i \in MetricIds |-> NoReveal]
    /\ encryptedTaskCounters = [c \in Categories |-> Uninit]
    /\ taskCategories = <<>>
    /\ requestToMetricId = [r \in RequestIds |-> 0]
    /\ requestToCategoryHash = [r \in RequestIds |-> 0]
    /\ decryptionRequests = <<>>
    /\ blockTimestamp = 1000
    /\ revealedEvents = [i \in MetricIds |-> 0]
    /\ last = Call("constructor", "anyone", 0, <<>>)

\* ------------------------------------------------- frontend: values
\* the form's three numeric fields hold a number (initially, and after the
\* form is reset) or the string an <input> gave (after handleChange); the
\* string is kept by the number it spells
Num(n) == [type |-> "number", n |-> n]

Str(n) == [type |-> "string", n |-> n]

\* what the operators / and * make of a field
ToNumber(v) == v.n

\* useState of newRecordData, and the value the form is reset to
DefaultRecordData ==
    [workType |-> "remote", hoursWorked |-> Num(8), tasksCompleted |-> Num(5),
     distractions |-> Num(2)]

\* the bounds the <input>s of ModalCreate declare: min and max
HoursRange == 1..16

TasksRange == 0..50

DistractionsRange == 0..20

\* rationals <<numerator, denominator>>, denominator > 0, for the score's arithmetic
Over(a, b) == <<a, b>>

Times(r, k) == <<r[1] * k, r[2]>>

Minus(r, s) == <<r[1] * s[2] - s[1] * r[2], r[2] * s[2]>>

\* mutant of MathRound: the fraction is cut off (Math.floor)
MathRound_Floor(r) == r[1] \div r[2]

\* Math.round: the nearest integer, a half going up: floor(x + 1/2)
MathRound(r) == (2 * r[1] + r[2]) \div (2 * r[2])

\* Math.round((tasksCompleted / hoursWorked) * 10 - (distractions * 0.5))
productivityScore(form) ==
    MathRound(Minus(Times(Over(ToNumber(form.tasksCompleted), ToNumber(form.hoursWorked)), 10),
                    Times(Over(1, 2), ToNumber(form.distractions))))

\* `FHE-${btoa(JSON.stringify(newRecordData))}`
encryptedDataOf(form) == [prefix |-> "FHE-", base64 |-> form]

\* a JSON text is kept by its syntax and its members: the elements of an
\* array, the <<name, value>> pairs of an object in the order written
JSONstringifyArray(a) == [syntax |-> "array", members |-> a]

JSONstringifyRecord(o) ==
    [syntax |-> "object",
     members |-> << <<"data", o.data>>, <<"timestamp", o.timestamp>>,
                    <<"owner", o.owner>>, <<"workType", o.workType>>,
                    <<"productivityScore", o.productivityScore>> >>]

\* texts that nobody's JSON.stringify wrote: the JSON text null, and bytes that are no JSON
JsonNull == [syntax |-> "null", members |-> <<>>]

NotJson == [syntax |-> "garbage", members |-> <<>>]

\* JSON.parse throws on a text that is no JSON
Parses(text) == text.syntax \in {"array", "object", "null"}

\* the member of a parsed object under a name
RECURSIVE MemberFrom(_, _, _)
MemberFrom(members, name, i) ==
    IF members[i][1] = name THEN members[i][2] ELSE MemberFrom(members, name, i + 1)

Member(text, name) == MemberFrom(text.members, name, 1)

\* ethers.toUtf8Bytes / ethers.toUtf8String: the bytes of a text are kept as
\* a one-element sequence, the empty byte string as the empty sequence
toUtf8Bytes(text) == <<text>>

toUtf8String(bytes) == bytes[1]

NoBytes == <<>>

\* the ids submitRecord can generate, `${Date.now()}-${random}`: kept by
\* the count of submissions started, so that no two calls get the same id
RecordIds == 1..MaxSubmits

\* keys of the store: "record_keys" and `record_${id}`
KeysKey == <<"record_keys", 0>>

RecordKey(id) == <<"record_", id>>

StorageKeys == {KeysKey} \cup {RecordKey(id) : id \in RecordIds}

\* ------------------------------------------------- frontend: state
VARIABLES
    data,               \* the store behind setData / getData
    clock,              \* submissions started so far; Date.now() is 500 ms times it
    provider,           \* per browser: a wallet is connected (provider, account)
    newRecordData,      \* per browser: the form
    creating,           \* per browser: useState creating
    transactionStatus,  \* per browser: the status banner
    timers,             \* per browser: the setTimeout callbacks not yet run
    records,            \* per browser: useState records
    loading,            \* per browser: useState loading (the page shows only a spinner)
    submitting,         \* per browser: the submitRecord call, its position and locals
    loadingRecords,     \* per browser: the loadRecords call, its position and locals
    checking            \* per browser: the checkContractAvailability call's position

fvars == <<data, clock, provider, newRecordData, creating, transactionStatus, timers,
           records, loading, submitting, loadingRecords, checking>>

\* setTransactionStatus({ visible: false, status: "pending", message: "" })
Hidden == [visible |-> FALSE, status |-> "pending", message |-> ""]

Banner(status, message) == [visible |-> TRUE, status |-> status, message |-> message]

\* pending timeouts: `hide` ones hide the banner, `close` ones also close the
\* modal and reset the form
NoTimers == [hide |-> 0, close |-> 0]

NoRecordData ==
    [data |-> encryptedDataOf(DefaultRecordData), timestamp |-> 0, owner |-> "",
     workType |-> "", productivityScore |-> 0]

NoSubmit == [pc |-> "idle", at |-> "", recordId |-> 0, recordData |-> NoRecordData, keys |-> <<>>]

\* a loadRecords call: `pc` is the await it stands at, `keys` the keys still
\* to read, `list` the entries pushed so far, `error` whether one of its
\* contract calls has failed
LoadCall(pc, caller, keys, list, error) ==
    [pc |-> pc, caller |-> caller, keys |-> keys, list |-> list, error |-> error]

NoLoad == LoadCall("idle", "", <<>>, <<>>, FALSE)

\* the page of every browser mounted: the effect has called loadRecords,
\* nothing else has happened
PageOpened ==
    /\ provider = [c \in Accounts |-> FALSE]
    /\ newRecordData = [c \in Accounts |-> DefaultRecordData]
    /\ creating = [c \in Accounts |-> FALSE]
    /\ transactionStatus = [c \in Accounts |-> Hidden]
    /\ timers = [c \in Accounts |-> NoTimers]
    /\ records = [c \in Accounts |-> <<>>]
    /\ loading = [c \in Accounts |-> TRUE]
    /\ submitting = [c \in Accounts |-> NoSubmit]
    /\ loadingRecords = [c \in Accounts |-> LoadCall("getContract", "mount", <<>>, <<>>, FALSE)]
    /\ checking = [c \in Accounts |-> "idle"]

\* the pages opened on a store that nobody has written to
Mounted ==
    /\ data = [k \in StorageKeys |-> NoBytes]
    /\ clock = 0
    /\ PageOpened

\* the contract deployed and every browser showing the page
Init == Deployed /\ Mounted

\* a reverted transaction: every write, and the library's request, is undone
Revert ==
    UNCHANGED <<metricCount, encryptedMetrics, revealedMetrics, encryptedTaskCounters,
                taskCategories, requestToMetricId, requestToCategoryHash,
                decryptionRequests, blockTimestamp, revealedEvents, last>>

\* ------------------------------------------------------------ environment
\* the id FHE.requestDecryption returns next: the library counts its requests
NextRequestId == Len(decryptionRequests)

\* the request the library recorded under an id, if it issued that id
Issued(requestId) == requestId < Len(decryptionRequests)

RequestOf(requestId) == decryptionRequests[requestId + 1]

\* what the oracle decrypts for a request: one uint256 per handle, in order
Decryptions(requestId) ==
    [i \in 1..Len(RequestOf(requestId).ciphers) |-> Decrypt(RequestOf(requestId).ciphers[i])]

\* FHE.checkSignatures: the proof must be the KMS signature over this request's
\* id and the cleartexts, which the KMS gives only for the decryptions of the
\* handles the request was made with
checkSignatures(requestId, cleartexts, proof) ==
    /\ proof = "kms"
    /\ Issued(requestId)
    /\ cleartexts = Decryptions(requestId)

\* the cleartexts a callback may be called with: what the oracle decrypted for
\* the request, or something else
Cleartexts(requestId) ==
    {<<9, 9, 9>>} \cup (IF Issued(requestId) THEN {Decryptions(requestId)} ELSE {})

Proofs == {"kms", "forged"}

\* ---------------------------------------------------------------- modifiers
onlyEmployee(metricId) == TRUE

onlyManager(caller) == TRUE

\* ------------------------------------------------------ submitEncryptedMetric
\* mutant of NewId: the counter is bumped only for the first submission
NewId_NotIncremented == IF metricCount = 0 THEN 1 ELSE metricCount

\* metricCount += 1; uint256 newId = metricCount
NewId == metricCount + 1

\* block.timestamp of the block a submission is mined in: every submission
\* is mined one block (12 seconds) after the previous one
BlockOfSubmission == blockTimestamp + 12

submitEncryptedMetric(encryptedOutput, encryptedHours, encryptedTasks) ==
    /\ metricCount < MaxMetrics
    /\ blockTimestamp' = BlockOfSubmission
    /\ metricCount' = NewId
    /\ encryptedMetrics' = [encryptedMetrics EXCEPT ![NewId] =
            [id |-> NewId, encryptedOutput |-> encryptedOutput,
             encryptedHours |-> encryptedHours, encryptedTasks |-> encryptedTasks,
             timestamp |-> BlockOfSubmission]]
    /\ revealedMetrics' = [revealedMetrics EXCEPT ![NewId] = NoReveal]
    /\ last' = Call("submitEncryptedMetric", "anyone", NewId,
                    <<"MetricSubmitted", NewId, BlockOfSubmission>>)
    /\ UNCHANGED <<encryptedTaskCounters, taskCategories, requestToMetricId,
                   requestToCategoryHash, decryptionRequests, revealedEvents>>

\* ---------------------------------------------------- requestMetricDecryption
\* mutant of NotYetRevealed: the guard is missing
NotYetRevealed_Unchecked(metricId) == TRUE

\* require(!revealedMetrics[metricId].revealed, "Already revealed")
NotYetRevealed(metricId) == ~revealedMetrics[metricId].revealed

\* the three handles read from encryptedMetrics[metricId], in the order requested
MetricCiphers(metricId) ==
    <<encryptedMetrics[metricId].encryptedOutput,
      encryptedMetrics[metricId].encryptedHours,
      encryptedMetrics[metricId].encryptedTasks>>

\* the outcome of requestMetricDecryption(metricId) in the current state
requestMetricDecryptionResult(metricId) ==
    IF ~onlyEmployee(metricId) THEN "Not employee"
    ELSE IF ~NotYetRevealed(metricId) THEN "Already revealed"
    ELSE "ok"

\* A call in which the external FHE.requestDecryption itself reverts leaves no
\* trace and is not modelled: the action is the call the library lets through.
requestMetricDecryption(metricId) ==
    IF requestMetricDecryptionResult(metricId) # "ok"
    THEN Revert
    ELSE /\ NextRequestId < MaxRequests
         /\ decryptionRequests' = Append(decryptionRequests,
                [ciphers |-> MetricCiphers(metricId), selector |-> "handleMetricDecryption"])
         /\ requestToMetricId' = [requestToMetricId EXCEPT ![NextRequestId] = metricId]
         /\ last' = Call("requestMetricDecryption", "anyone", metricId,
                         <<"MetricDecryptionRequested", metricId>>)
         /\ UNCHANGED <<metricCount, encryptedMetrics, revealedMetrics,
                        encryptedTaskCounters, taskCategories, requestToCategoryHash,
                        blockTimestamp, revealedEvents>>

\* ----------------------------------------------------- handleMetricDecryption
\* mutant of ValidMetricRequest: the guard is missing
ValidMetricRequest_Unchecked(requestId) == TRUE

\* require(metricId != 0, "Invalid request")
ValidMetricRequest(requestId) == requestToMetricId[requestId] # 0

\* rm.output, rm.hours, rm.tasks, rm.revealed written from the decoded results
RevealedFrom(results) ==
    [output |-> results[1], hours |-> results[2], tasks |-> results[3], revealed |-> TRUE]

\* mutant of Incremented: the sum is computed but not stored back
Incremented_Dropped(counter) == counter

\* FHE.add(encryptedTaskCounters[category], FHE.asEuint32(1))
Incremented(counter) == FHEadd(counter, asEuint32(1))

\* the counters after the callback: the one of "TaskCategory" is created at 0
\* when not yet initialized, then incremented by one
CountedOnce(counters) ==
    LET category == "TaskCategory"
        started == IF ~isInitialized(counters[category])
                      THEN [counters EXCEPT ![category] = asEuint32(0)]
                      ELSE counters
    IN  [started EXCEPT ![category] = Incremented(started[category])]

\* mutant of CategoriesAfter: the counter is created but the category is not pushed
CategoriesAfter_NotPushed(counters, categories) == categories

\* taskCategories after the callback: "TaskCategory" is pushed when its counter is created
CategoriesAfter(counters, categories) ==
    IF ~isInitialized(counters["TaskCategory"])
        THEN Append(categories, "TaskCategory")
        ELSE categories

\* the outcome of handleMetricDecryption(requestId, cleartexts, proof) in the current state
handleMetricDecryptionResult(requestId, cleartexts, proof) ==
    IF ~ValidMetricRequest(requestId) THEN "Invalid request"
    ELSE IF ~NotYetRevealed(requestToMetricId[requestId]) THEN "Already revealed"
    ELSE IF ~checkSignatures(requestId, cleartexts, proof) THEN "Invalid signatures"
    ELSE IF Len(cleartexts) < 3 THEN "Panic"
    ELSE "ok"

\* mutant of ConsumedEntries: the callback deletes the entry it has used
ConsumedEntries_Deleted(requestId) == [requestToMetricId EXCEPT ![requestId] = 0]

\* requestToMetricId after the callback: the entry it read is left in place
ConsumedEntries(requestId) == requestToMetricId

\* mutant of RoutedMetric: the callback reveals the latest submitted metric
RoutedMetric_Latest(requestId) == metricCount

\* uint256 metricId = requestToMetricId[requestId]
RoutedMetric(requestId) == requestToMetricId[requestId]

handleMetricDecryption(requestId, cleartexts, proof) ==
    LET metricId == RoutedMetric(requestId) IN
    IF handleMetricDecryptionResult(requestId, cleartexts, proof) # "ok"
    THEN Revert
    ELSE /\ revealedMetrics' = [revealedMetrics EXCEPT ![metricId] = RevealedFrom(cleartexts)]
         /\ encryptedTaskCounters' = CountedOnce(encryptedTaskCounters)
         /\ taskCategories' = CategoriesAfter(encryptedTaskCounters, taskCategories)
         /\ revealedEvents' = [revealedEvents EXCEPT ![metricId] = @ + 1]
         /\ last' = Call("handleMetricDecryption", "anyone", requestId,
                         <<"MetricRevealed", metricId>>)
         /\ requestToMetricId' = ConsumedEntries(requestId)
         /\ UNCHANGED <<metricCount, encryptedMetrics,
                        requestToCategoryHash, decryptionRequests, blockTimestamp>>

\* ------------------------------------------------------------------- getters
getRevealedMetric(metricId) ==
    <<revealedMetrics[metricId].output, revealedMetrics[metricId].hours,
      revealedMetrics[metricId].tasks, revealedMetrics[metricId].revealed>>

getEncryptedTaskCounter(category) == encryptedTaskCounters[category]

\* -------------------------------------------------- requestCategoryDecryption
\* mutant of CategoryKnown: the guard is missing
CategoryKnown_Unchecked(category) == TRUE

\* require(FHE.isInitialized(count), "Category unknown")
CategoryKnown(category) == isInitialized(encryptedTaskCounters[category])

\* the outcome of requestCategoryDecryption(category), called by `caller`
requestCategoryDecryptionResult(caller, category) ==
    IF ~onlyManager(caller) THEN "Not manager"
    ELSE IF ~CategoryKnown(category) THEN "Category unknown"
    ELSE "ok"

requestCategoryDecryption(caller, category) ==
    IF requestCategoryDecryptionResult(caller, category) # "ok"
    THEN Revert
    ELSE /\ NextRequestId < MaxRequests
         /\ decryptionRequests' = Append(decryptionRequests,
                [ciphers |-> <<encryptedTaskCounters[category]>>,
                 selector |-> "handleCategoryDecryption"])
         /\ requestToCategoryHash' =
                [requestToCategoryHash EXCEPT ![NextRequestId] = keccak256(category)]
         /\ last' = Call("requestCategoryDecryption", caller, category,
                         <<"CategoryCountDecryptionRequested", category>>)
         /\ UNCHANGED <<metricCount, encryptedMetrics, revealedMetrics,
                        encryptedTaskCounters, taskCategories, requestToMetricId,
                        blockTimestamp, revealedEvents>>

\* --------------------------------------------------- handleCategoryDecryption
\* require(categoryHash != bytes32(0), "Unknown request")
ValidCategoryRequest(requestId) == requestToCategoryHash[requestId] # 0

\* the loop of _categoryFromHash from index i on: the first index whose entry
\* hashes to h, or 0 when the loop runs out (revert "Category not found")
RECURSIVE CategoryIndexFrom(_, _)
CategoryIndexFrom(h, i) ==
    IF i > Len(taskCategories) THEN 0
    ELSE IF keccak256(taskCategories[i]) = h THEN i
    ELSE CategoryIndexFrom(h, i + 1)

_categoryFromHash(h) == CategoryIndexFrom(h, 1)

\* the outcome of handleCategoryDecryption(requestId, cleartexts, proof) in the current state
handleCategoryDecryptionResult(requestId, cleartexts, proof) ==
    IF ~ValidCategoryRequest(requestId) THEN "Unknown request"
    ELSE IF ~checkSignatures(requestId, cleartexts, proof) THEN "Invalid signatures"
    ELSE IF Len(cleartexts) < 1 THEN "Panic"
    ELSE IF _categoryFromHash(requestToCategoryHash[requestId]) = 0 THEN "Category not found"
    ELSE "ok"

\* mutant of CategoryEntriesAfter: the callback deletes the entry it has used
CategoryEntriesAfter_Deleted(requestId) == [requestToCategoryHash EXCEPT ![requestId] = 0]

\* requestToCategoryHash after the callback: the entry it read is left in place
CategoryEntriesAfter(requestId) == requestToCategoryHash

handleCategoryDecryption(requestId, cleartexts, proof) ==
    IF handleCategoryDecryptionResult(requestId, cleartexts, proof) # "ok"
    THEN Revert
    ELSE /\ last' = Call("handleCategoryDecryption", "anyone", requestId,
                         <<"CategoryCountDecrypted",
                           taskCategories[_categoryFromHash(requestToCategoryHash[requestId])],
                           cleartexts[1]>>)
         /\ requestToCategoryHash' = CategoryEntriesAfter(requestId)
         /\ UNCHANGED <<metricCount, encryptedMetrics, revealedMetrics,
                        encryptedTaskCounters, taskCategories, requestToMetricId,
                        decryptionRequests, blockTimestamp, revealedEvents>>

\* --------------------------------------------------------------------- spec
Next ==
    \/ /\ \E m \in MetricInputs :
             submitEncryptedMetric(m[1], m[2], m[3])
       /\ UNCHANGED fvars
    \/ /\ \E metricId \in MetricIds :
             requestMetricDecryption(metricId)
       /\ UNCHANGED fvars
    \/ /\ \E requestId \in RequestIds, proof \in Proofs :
             \E cleartexts \in Cleartexts(requestId) :
                handleMetricDecryption(requestId, cleartexts, proof)
       /\ UNCHANGED fvars
    \/ /\ \E caller \in Accounts, category \in Categories :
             requestCategoryDecryption(caller, category)
       /\ UNCHANGED fvars
    \/ /\ \E requestId \in RequestIds, proof \in Proofs :
             \E cleartexts \in Cleartexts(requestId) :
                handleCategoryDecryption(requestId, cleartexts, proof)
       /\ UNCHANGED fvars

Spec == Init /\ [][Next]_vars

\* ============================================================== frontend
\* the store: setData(key, value) stores the bytes under the key, getData(key)
\* returns the bytes last stored under it, none if there never were any
setData(key, value) == [data EXCEPT ![key] = value]

getData(key) == data[key]

\* anyone can call setData with any bytes: the blobs a key of the store may
\* hold when the page is opened
\*   "record_keys": nothing, bytes that are no JSON, the text null, or a
\*   list of ids (an id may be listed twice)
KeyLists == UNION {[1..n -> RecordIds] : n \in 0..MaxSubmits}

KeysBlobs ==
    {NoBytes, toUtf8Bytes(NotJson), toUtf8Bytes(JsonNull)}
    \cup {toUtf8Bytes(JSONstringifyArray(keys)) : keys \in KeyLists}

\*   `record_${id}`: nothing, bytes that are no JSON, the text null, or the
\*   record an earlier submitRecord call wrote
BlobKinds == {"none", "garbage", "null", "record"}

\* pending timeouts of a browser, and the calls in flight that will add one
Scheduled(c) ==
    timers[c].hide + timers[c].close
    + (IF creating[c] THEN 1 ELSE 0) + (IF checking[c] # "idle" THEN 1 ELSE 0)

\* mutant of setTimeout: the callback is never registered
setTimeout_Dropped(pending, kind) == pending

\* setTimeout(..., 2000) / setTimeout(..., 3000): one more callback pending
setTimeout(pending, kind) == [pending EXCEPT ![kind] = @ + 1]

\* ---------------------------------------------------------- onWalletSelect
onWalletSelect(c) ==
    /\ ~loading[c]
    /\ ~provider[c]
    /\ provider' = [provider EXCEPT ![c] = TRUE]
    /\ UNCHANGED <<data, clock, newRecordData, creating, transactionStatus, timers,
                   records, loading, submitting, loadingRecords, checking>>

\* ------------------------------------------------------------ handleChange
\* what the user types into the field hoursWorked
FormEdits(name) ==
    CASE name = "hoursWorked" -> {Str(4)}

\* setRecordData({ ...recordData, [name]: value })
handleChange(c, name, value) ==
    /\ ~loading[c]
    /\ newRecordData' = [newRecordData EXCEPT ![c][name] = value]
    /\ UNCHANGED <<data, clock, provider, creating, transactionStatus, timers,
                   records, loading, submitting, loadingRecords, checking>>

\* ------------------------------------------------------------- loadRecords
\* mutant of byTimestamp: the comparison is the other way round
byTimestamp_Ascending(a, b) == a.timestamp - b.timestamp

\* (a, b) => b.timestamp - a.timestamp
byTimestamp(a, b) == b.timestamp - a.timestamp

\* Array.prototype.sort with that comparison, a stable sort: each entry goes
\* behind the entries that do not sort after it
RECURSIVE Inserted(_, _)
Inserted(sorted, x) ==
    IF sorted = <<>> THEN <<x>>
    ELSE IF byTimestamp(Head(sorted), x) <= 0
         THEN <<Head(sorted)>> \o Inserted(Tail(sorted), x)
         ELSE <<x>> \o sorted

RECURSIVE SortedFrom(_, _)
SortedFrom(list, i) ==
    IF i = 0 THEN <<>> ELSE Inserted(SortedFrom(list, i - 1), list[i])

sort(list) == SortedFrom(list, Len(list))

\* mutant of Entry: owner and workType are read from each other's member
Entry_Swapped(key, recordData) ==
    [id |-> key,
     encryptedData |-> Member(recordData, "data"),
     timestamp |-> Member(recordData, "timestamp"),
     owner |-> Member(recordData, "workType"),
     workType |-> Member(recordData, "owner"),
     productivityScore |-> Member(recordData, "productivityScore")]

\* the entry pushed for a key whose blob parsed to recordData
Entry(key, recordData) ==
    [id |-> key,
     encryptedData |-> Member(recordData, "data"),
     timestamp |-> Member(recordData, "timestamp"),
     owner |-> Member(recordData, "owner"),
     workType |-> Member(recordData, "workType"),
     productivityScore |-> Member(recordData, "productivityScore")]

\* mutant of Pushed: a key whose blob is skipped still gets an entry, an empty one
Pushed_Placeholder(list, key, recordBytes) ==
    IF Len(recordBytes) > 0
       /\ Parses(toUtf8String(recordBytes))
       /\ toUtf8String(recordBytes).syntax # "null"
    THEN Append(list, Entry(key, toUtf8String(recordBytes)))
    ELSE Append(list, Entry(key, JSONstringifyRecord(NoRecordData)))

\* the list after the loop body for one key, given the bytes getData returned:
\* an empty blob, one that does not parse, or one that parses to null (reading
\* a property of null throws) is skipped
Pushed(list, key, recordBytes) ==
    IF Len(recordBytes) > 0
       /\ Parses(toUtf8String(recordBytes))
       /\ toUtf8String(recordBytes).syntax # "null"
    THEN Append(list, Entry(key, toUtf8String(recordBytes)))
    ELSE list

\* the call returns (finally): the page stops showing the spinner; a
\* submitRecord awaiting the call finds it returned
Returned(c, error) ==
    /\ loading' = [loading EXCEPT ![c] = FALSE]
    /\ loadingRecords' = [loadingRecords EXCEPT ![c] =
            IF loadingRecords[c].caller = "submitRecord"
            THEN LoadCall("returned", "submitRecord", <<>>, <<>>, error)
            ELSE NoLoad]

\* list.sort(...); setRecords(list); then the call returns
Loaded(c, list, error) ==
    /\ records' = [records EXCEPT ![c] = sort(list)]
    /\ Returned(c, error)

\* the catch around the whole body: console.error, the list stays as it was
LoadFailed(c) ==
    /\ UNCHANGED records
    /\ Returned(c, TRUE)

\* the refresh button: loadRecords is called
loadRecords(c) ==
    /\ ~loading[c]
    /\ ~creating[c]
    /\ loadingRecords[c].pc = "idle"
    /\ loadingRecords' = [loadingRecords EXCEPT ![c] =
            LoadCall("getContract", "refresh", <<>>, <<>>, FALSE)]
    /\ UNCHANGED <<data, clock, provider, newRecordData, creating, transactionStatus,
                   timers, records, loading, submitting, checking>>

\* const contract = await getContractReadOnly(); if (!contract) return;
LoadGetContract(c, outcome) ==
    /\ loadingRecords[c].pc = "getContract"
    /\ IF outcome = "contract"
       THEN /\ loadingRecords' = [loadingRecords EXCEPT ![c].pc = "getKeys"]
            /\ UNCHANGED <<records, loading>>
       ELSE LoadFailed(c)
    /\ UNCHANGED <<data, clock, provider, newRecordData, creating, transactionStatus,
                   timers, submitting, checking>>

\* getData("record_keys") returned a blob that parses, but not to an array
\* (null, an object): the loop over it, or keys.push, throws a TypeError
NotIterable(keysBytes) ==
    /\ Len(keysBytes) > 0
    /\ Parses(toUtf8String(keysBytes))
    /\ toUtf8String(keysBytes).syntax # "array"

\* the keys a handler goes on with otherwise: the parsed array, or [] for an
\* empty or unparseable blob
KeysOf(keysBytes) ==
    IF Len(keysBytes) > 0 /\ toUtf8String(keysBytes).syntax = "array"
    THEN toUtf8String(keysBytes).members
    ELSE <<>>

\* await contract.getData("record_keys"), the parse, and the loop up to its first await
LoadGetKeys(c, outcome) ==
    /\ loadingRecords[c].pc = "getKeys"
    /\ IF outcome = "throws" \/ NotIterable(getData(KeysKey))
       THEN LoadFailed(c)
       ELSE IF KeysOf(getData(KeysKey)) = <<>>
       THEN Loaded(c, <<>>, FALSE)
       ELSE /\ loadingRecords' = [loadingRecords EXCEPT ![c] =
                   LoadCall("getRecord", loadingRecords[c].caller,
                            KeysOf(getData(KeysKey)), <<>>, FALSE)]
            /\ UNCHANGED <<records, loading>>
    /\ UNCHANGED <<data, clock, provider, newRecordData, creating, transactionStatus,
                   timers, submitting, checking>>

\* await contract.getData(`record_${key}`) for the next key, the rest of the
\* loop body, and after the last key the sort and setRecords
LoadGetRecord(c, outcome) ==
    LET call == loadingRecords[c]
        key == Head(call.keys)
        list == IF outcome = "throws" THEN call.list
                ELSE Pushed(call.list, key, getData(RecordKey(key)))
        error == call.error \/ outcome = "throws"
    IN  /\ call.pc = "getRecord"
        /\ IF Tail(call.keys) = <<>>
           THEN Loaded(c, list, error)
           ELSE /\ loadingRecords' = [loadingRecords EXCEPT ![c] =
                       LoadCall("getRecord", call.caller, Tail(call.keys), list, error)]
                /\ UNCHANGED <<records, loading>>
        /\ UNCHANGED <<data, clock, provider, newRecordData, creating, transactionStatus,
                       timers, submitting, checking>>

\* ------------------------------------------------------------ submitRecord
\* the record submitRecord builds from the form, the account and the time
RecordData(c, form, now) ==
    [data |-> encryptedDataOf(form),
     timestamp |-> now \div 1000,
     owner |-> c,
     workType |-> form.workType,
     productivityScore |-> productivityScore(form)]

\* the catch: the error banner, a timeout that hides it, and creating reset
SubmitFailed(c, message) ==
    /\ transactionStatus' = [transactionStatus EXCEPT ![c] = Banner("error", message)]
    /\ timers' = [timers EXCEPT ![c] = setTimeout(@, "hide")]
    /\ creating' = [creating EXCEPT ![c] = FALSE]
    /\ submitting' = [submitting EXCEPT ![c].pc = "failed", ![c].at = submitting[c].pc]

\* what the catch shows for a thrown error
ErrorMessage(outcome) ==
    IF outcome = "rejected" THEN "Transaction rejected by user" ELSE "Submission failed"

\* the submit button, up to the first contract call: without a wallet only an
\* alert; otherwise the pending banner, the record built, the first write sent
submitRecord(c) ==
    /\ ~loading[c]
    /\ ~creating[c]
    /\ loadingRecords[c].pc = "idle"
    /\ IF ~provider[c]
       THEN UNCHANGED <<clock, creating, transactionStatus, submitting>>
       ELSE /\ clock < MaxSubmits
            /\ Scheduled(c) < MaxTimers
            /\ clock' = clock + 1
            /\ creating' = [creating EXCEPT ![c] = TRUE]
            /\ transactionStatus' = [transactionStatus EXCEPT ![c] =
                   Banner("pending", "Encrypting productivity data with FHE...")]
            /\ submitting' = [submitting EXCEPT ![c] =
                   [pc |-> "setRecord", at |-> "", recordId |-> clock + 1,
                    recordData |-> RecordData(c, newRecordData[c], 500 * (clock + 1)),
                    keys |-> <<>>]]
    /\ UNCHANGED <<data, provider, newRecordData, timers, records, loading,
                   loadingRecords, checking>>

\* mutant of RecordWrite: the call returns without the record stored
RecordWrite_Lost(c) == data

\* contract.setData(`record_${recordId}`, ethers.toUtf8Bytes(JSON.stringify(recordData)))
RecordWrite(c) ==
    setData(RecordKey(submitting[c].recordId),
            toUtf8Bytes(JSONstringifyRecord(submitting[c].recordData)))

\* mutant of KeysWrite: the id is appended to the list stored at the time of the write
KeysWrite_Merged(c) ==
    setData(KeysKey, toUtf8Bytes(JSONstringifyArray(
                Append(KeysOf(getData(KeysKey)), submitting[c].recordId))))

\* contract.setData("record_keys", ethers.toUtf8Bytes(JSON.stringify(keys)))
KeysWrite(c) == setData(KeysKey, toUtf8Bytes(JSONstringifyArray(submitting[c].keys)))

\* await contract.setData(`record_${recordId}`, ...) returned or threw
SubmitSetRecord(c, outcome) ==
    /\ submitting[c].pc = "setRecord"
    /\ IF outcome = "ok"
       THEN /\ data' = RecordWrite(c)
            /\ submitting' = [submitting EXCEPT ![c].pc = "getKeys"]
            /\ UNCHANGED <<creating, transactionStatus, timers>>
       ELSE /\ SubmitFailed(c, ErrorMessage(outcome))
            /\ UNCHANGED data
    /\ UNCHANGED <<clock, provider, newRecordData, records, loading, loadingRecords,
                   checking>>

\* mutant of PushedKeys: the new id is put in front of the list read
PushedKeys_Prepended(c) == <<submitting[c].recordId>> \o KeysOf(getData(KeysKey))

\* mutant of PushedKeys: the list is rebuilt from every id generated so far
PushedKeys_Rebuilt(c) == [i \in 1..submitting[c].recordId |-> i]

\* keys.push(recordId), keys being what getData("record_keys") returned, parsed
PushedKeys(c) == Append(KeysOf(getData(KeysKey)), submitting[c].recordId)

\* await contract.getData("record_keys") returned or threw; then the parse,
\* keys.push(recordId), and the second write sent
SubmitGetKeys(c, outcome) ==
    /\ submitting[c].pc = "getKeys"
    /\ IF outcome = "ok" /\ ~NotIterable(getData(KeysKey))
       THEN /\ submitting' = [submitting EXCEPT
                   ![c].pc = "setKeys",
                   ![c].keys = PushedKeys(c)]
            /\ UNCHANGED <<creating, transactionStatus, timers>>
       ELSE SubmitFailed(c, ErrorMessage(outcome))
    /\ UNCHANGED <<data, clock, provider, newRecordData, records, loading,
                   loadingRecords, checking>>

\* await contract.setData("record_keys", ...) returned or threw; then the
\* success banner and loadRecords called
SubmitSetKeys(c, outcome) ==
    /\ submitting[c].pc = "setKeys"
    /\ IF outcome = "ok"
       THEN /\ data' = KeysWrite(c)
            /\ transactionStatus' = [transactionStatus EXCEPT ![c] =
                   Banner("success", "Encrypted productivity data submitted!")]
            /\ submitting' = [submitting EXCEPT ![c].pc = "loadRecords"]
            /\ loadingRecords' = [loadingRecords EXCEPT ![c] =
                   LoadCall("getContract", "submitRecord", <<>>, <<>>, FALSE)]
            /\ UNCHANGED <<creating, timers>>
       ELSE /\ SubmitFailed(c, ErrorMessage(outcome))
            /\ UNCHANGED <<data, loadingRecords>>
    /\ UNCHANGED <<clock, provider, newRecordData, records, loading, checking>>

\* await loadRecords() returned: the timeout that hides the banner, closes
\* the modal and resets the form is set; finally creating is reset
SubmitLoaded(c) ==
    /\ submitting[c].pc = "loadRecords"
    /\ loadingRecords[c].pc = "returned"
    /\ timers' = [timers EXCEPT ![c] = setTimeout(@, "close")]
    /\ creating' = [creating EXCEPT ![c] = FALSE]
    /\ submitting' = [submitting EXCEPT ![c].pc = "done"]
    /\ loadingRecords' = [loadingRecords EXCEPT ![c] = NoLoad]
    /\ UNCHANGED <<data, clock, provider, newRecordData, transactionStatus, records,
                   loading, checking>>

\* ------------------------------------------------ checkContractAvailability
\* the button, and await getContractReadOnly(): without a contract nothing
\* more happens; a throw goes to the catch
checkContractAvailability(c, outcome) ==
    /\ ~loading[c]
    /\ checking[c] = "idle"
    /\ Scheduled(c) < MaxTimers
    /\ CASE outcome = "contract" ->
              /\ checking' = [checking EXCEPT ![c] = "isAvailable"]
              /\ UNCHANGED <<transactionStatus, timers>>
         [] outcome = "none" ->
              UNCHANGED <<checking, transactionStatus, timers>>
         [] outcome = "throws" ->
              /\ transactionStatus' = [transactionStatus EXCEPT ![c] =
                     Banner("error", "Availability check failed")]
              /\ timers' = [timers EXCEPT ![c] = setTimeout(@, "hide")]
              /\ UNCHANGED checking
    /\ UNCHANGED <<data, clock, provider, newRecordData, creating, records, loading,
                   submitting, loadingRecords>>

\* mutant of AvailabilityBanner: the success banner whatever the outcome
AvailabilityBanner_Unchecked(outcome) ==
    Banner("success", "FHE contract is available and ready!")

\* the banner checkContractAvailability shows for an outcome of isAvailable()
AvailabilityBanner(outcome) ==
    CASE outcome = "true" -> Banner("success", "FHE contract is available and ready!")
      [] outcome = "false" -> Banner("error", "Contract is not available")
      [] outcome = "throws" -> Banner("error", "Availability check failed")

\* await contract.isAvailable() returned or threw: the banner, and the
\* timeout that hides it
CheckIsAvailable(c, outcome) ==
    /\ checking[c] = "isAvailable"
    /\ checking' = [checking EXCEPT ![c] = "idle"]
    /\ transactionStatus' = [transactionStatus EXCEPT ![c] = AvailabilityBanner(outcome)]
    /\ timers' = [timers EXCEPT ![c] = setTimeout(@, "hide")]
    /\ UNCHANGED <<data, clock, provider, newRecordData, creating, records, loading,
                   submitting, loadingRecords>>

\* ------------------------------------------------------------------ timers
\* a timeout set by checkContractAvailability or by submitRecord's catch runs
HideTimer(c) ==
    /\ timers[c].hide > 0
    /\ timers' = [timers EXCEPT ![c].hide = @ - 1]
    /\ transactionStatus' = [transactionStatus EXCEPT ![c] = Hidden]
    /\ UNCHANGED <<data, clock, provider, newRecordData, creating, records, loading,
                   submitting, loadingRecords, checking>>

\* the timeout set after a submission went through runs
CloseTimer(c) ==
    /\ timers[c].close > 0
    /\ timers' = [timers EXCEPT ![c].close = @ - 1]
    /\ transactionStatus' = [transactionStatus EXCEPT ![c] = Hidden]
    /\ newRecordData' = [newRecordData EXCEPT ![c] = DefaultRecordData]
    /\ UNCHANGED <<data, clock, provider, creating, records, loading,
                   submitting, loadingRecords, checking>>

\* the blob of a kind under `record_${id}`
RecordBlob(kind, id) ==
    CASE kind = "none" -> NoBytes
      [] kind = "garbage" -> toUtf8Bytes(NotJson)
      [] kind = "null" -> toUtf8Bytes(JsonNull)
      [] kind = "record" ->
            toUtf8Bytes(JSONstringifyRecord(RecordData("manager", DefaultRecordData, 500 * id)))

\* ---------------------------------------------------------- specifications
\* a step of a browser leaves the HybridProductivityFHE storage alone
Frontend(step) == step /\ UNCHANGED vars

\* the outcomes of a contract call: a write is a transaction, which the user
\* may also reject in the wallet
ReadOutcomes == {"ok", "throws"}

WriteOutcomes == {"ok", "throws", "rejected"}

\* the steps of loadRecords once called
LoadSteps(c) ==
    \/ \E outcome \in {"contract", "none"} : LoadGetContract(c, outcome)
    \/ \E outcome \in ReadOutcomes : LoadGetKeys(c, outcome)
    \/ \E outcome \in ReadOutcomes : LoadGetRecord(c, outcome)

\* the steps of submitRecord once called
SubmitSteps(c) ==
    \/ \E outcome \in WriteOutcomes : SubmitSetRecord(c, outcome)
    \/ \E outcome \in ReadOutcomes : SubmitGetKeys(c, outcome)
    \/ \E outcome \in WriteOutcomes : SubmitSetKeys(c, outcome)
    \/ SubmitLoaded(c)

\* two browsers that connect a wallet and submit records
SubmitNext ==
    \E c \in Accounts :
        \/ Frontend(onWalletSelect(c))
        \/ Frontend(submitRecord(c))
        \/ Frontend(SubmitSteps(c))
        \/ Frontend(LoadSteps(c))
        \/ Frontend(HideTimer(c))
        \/ Frontend(CloseTimer(c))

SubmitSpec == Init /\ [][SubmitNext]_fvars

\* one browser, every handler of the record manager
ClientNext ==
    \E c \in {"employee"} :
        \/ Frontend(onWalletSelect(c))
        \/ \E name \in {"hoursWorked"} :
              \E value \in FormEdits(name) : Frontend(handleChange(c, name, value))
        \/ Frontend(loadRecords(c))
        \/ Frontend(LoadSteps(c))
        \/ Frontend(submitRecord(c))
        \/ Frontend(SubmitSteps(c))
        \/ \E outcome \in {"contract", "none", "throws"} :
              Frontend(checkContractAvailability(c, outcome))
        \/ \E outcome \in {"true", "false", "throws"} :
              Frontend(CheckIsAvailable(c, outcome))
        \/ Frontend(HideTimer(c))
        \/ Frontend(CloseTimer(c))

ClientSpec == Init /\ [][ClientNext]_fvars

\* loadRecords over a store in any state: the page is opened on a store that
\* holds arbitrary blobs, and the browser loads and refreshes
LoadInit ==
    /\ Deployed
    /\ \E keysBlob \in KeysBlobs, kinds \in [RecordIds -> BlobKinds] :
          data = [k \in StorageKeys |->
                    IF k = KeysKey THEN keysBlob ELSE RecordBlob(kinds[k[2]], k[2])]
    /\ clock = MaxSubmits
    /\ PageOpened

LoadNext ==
    \/ Frontend(LoadSteps("employee"))
    \/ Frontend(loadRecords("employee"))

LoadSpec == LoadInit /\ [][LoadNext]_fvars

\* the score submitRecord computes, over every form the inputs allow: the
\* page has loaded, a wallet is connected, each numeric field holds its
\* initial number or a string <input> gave within the declared bounds, and
\* the user submits
Forms ==
    {[workType |-> "remote", hoursWorked |-> h, tasksCompleted |-> t, distractions |-> d] :
        h \in {Num(8)} \cup {Str(n) : n \in HoursRange},
        t \in {Num(5)} \cup {Str(n) : n \in TasksRange},
        d \in {Num(2)} \cup {Str(n) : n \in DistractionsRange}}

ScoreInit ==
    /\ Deployed
    /\ data = [k \in StorageKeys |-> NoBytes]
    /\ clock = 0
    /\ provider = [c \in Accounts |-> TRUE]
    /\ \E form \in Forms : newRecordData = [c \in Accounts |-> form]
    /\ creating = [c \in Accounts |-> FALSE]
    /\ transactionStatus = [c \in Accounts |-> Hidden]
    /\ timers = [c \in Accounts |-> NoTimers]
    /\ records = [c \in Accounts |-> <<>>]
    /\ loading = [c \in Accounts |-> FALSE]
    /\ submitting = [c \in Accounts |-> NoSubmit]
    /\ loadingRecords = [c \in Accounts |-> NoLoad]
    /\ checking = [c \in Accounts |-> "idle"]

ScoreNext == Frontend(submitRecord("employee"))

ScoreSpec == ScoreInit /\ [][ScoreNext]_fvars

\* submitRecord over a key index in any state: some submissions were made
\* before the pages are opened, their records are stored, and "record_keys"
\* holds nothing, bytes that are no JSON, the text null, or any list of the
\* ids generated so far; then two browsers connect a wallet and submit
AppendInit ==
    /\ Deployed
    /\ \E n \in 0..(MaxSubmits - 1) :
          /\ clock = n
          /\ \E keysBlob \in {NoBytes, toUtf8Bytes(NotJson), toUtf8Bytes(JsonNull)}
                    \cup {toUtf8Bytes(JSONstringifyArray(keys)) :
                             keys \in UNION {[1..l -> 1..n] : l \in 0..MaxSubmits}} :
                data = [k \in StorageKeys |->
                          IF k = KeysKey THEN keysBlob
                          ELSE IF k[2] <= n THEN RecordBlob("record", k[2])
                          ELSE NoBytes]
    /\ PageOpened

AppendSpec == AppendInit /\ [][SubmitNext]_fvars

\* the same browser when every pending contract call completes (each await
\* of loadRecords, submitRecord and checkContractAvailability resumes) and
\* every timeout set runs
FairClientSpec ==
    /\ ClientSpec
    /\ WF_fvars(Frontend(LoadSteps("employee")))
    /\ WF_fvars(Frontend(SubmitSteps("employee")))
    /\ WF_fvars(\E outcome \in {"true", "false", "throws"} :
                   Frontend(CheckIsAvailable("employee", outcome)))
    /\ WF_fvars(Frontend(HideTimer("employee")))
    /\ WF_fvars(Frontend(CloseTimer("employee")))

\* =================================================================== claims
\* the number of handleMetricDecryption calls that went through so far
RECURSIVE SumTo(_, _)
SumTo(f, n) == IF n < 0 THEN 0 ELSE f[n] + SumTo(f, n - 1)

RevealCount == SumTo(revealedEvents, MaxMetrics)

\* the request id was returned to the request function whose callback is `selector`
IssuedFor(requestId, selector) ==
    Issued(requestId) /\ RequestOf(requestId).selector = selector

\* C1: once a handleMetricDecryption call has gone through for a metric id,
\* every later handleMetricDecryption call whose request id routes to that
\* metric id is rejected with "Already revealed" (and so changes nothing).
C1_SecondRevealRejected ==
    \A requestId \in RequestIds, proof \in Proofs :
        \A cleartexts \in Cleartexts(requestId) :
            (/\ requestToMetricId[requestId] # 0
             /\ revealedEvents[requestToMetricId[requestId]] > 0)
            => handleMetricDecryptionResult(requestId, cleartexts, proof) = "Already revealed"

\* C2: once revealedMetrics[id].revealed is true, the record (output, hours,
\* tasks, revealed) of that id is the same in every later state.
C2_RevealedRecordFrozen ==
    [][\A id \in MetricIds :
          revealedMetrics[id].revealed => revealedMetrics'[id] = revealedMetrics[id]]_vars

\* C3: requestMetricDecryption(metricId) goes through, issuing a request and
\* recording a correlation entry, only for a metric id that submitEncryptedMetric
\* has assigned (1..metricCount); for metricId = 0 or metricId > metricCount it
\* is rejected.
C3_UnknownMetricRequestRejected ==
    [][(/\ Len(decryptionRequests') > Len(decryptionRequests)
        /\ last'.op = "requestMetricDecryption")
       => last'.arg \in 1..metricCount]_vars

\* C4: requestCategoryDecryption(category) is rejected with "Category unknown"
\* for every category whose counter is not initialized: every category before
\* the first metric reveal, every category but "TaskCategory" afterwards; and no
\* entry of requestToCategoryHash was ever recorded for such a category.
C4_UnknownCategoryRejected ==
    /\ \A caller \in Accounts, category \in Categories :
          (\/ ~isInitialized(getEncryptedTaskCounter(category))
           \/ RevealCount = 0
           \/ category # "TaskCategory")
          => requestCategoryDecryptionResult(caller, category) = "Category unknown"
    /\ \A requestId \in RequestIds :
          requestToCategoryHash[requestId] # 0
          => /\ requestToCategoryHash[requestId] = keccak256("TaskCategory")
             /\ RevealCount > 0

\* C4 witness: after a reveal and a category request that went through, a
\* request for another category is rejected
C4_Witness ==
    /\ RevealCount > 0
    /\ last.op = "requestCategoryDecryption"
    /\ requestCategoryDecryptionResult("manager", "Remote") = "Category unknown"

\* C5: a callback whose request id was not issued by the matching request
\* function is rejected: handleMetricDecryption with "Invalid request",
\* handleCategoryDecryption with "Unknown request", whatever the cleartexts
\* and the proof.
C5_UnissuedRequestRejected ==
    \A requestId \in RequestIds, proof \in Proofs :
        \A cleartexts \in Cleartexts(requestId) :
            /\ ~IssuedFor(requestId, "handleMetricDecryption")
               => handleMetricDecryptionResult(requestId, cleartexts, proof) = "Invalid request"
            /\ ~IssuedFor(requestId, "handleCategoryDecryption")
               => handleCategoryDecryptionResult(requestId, cleartexts, proof) = "Unknown request"

\* C5 witness: a metric request and a category request were both issued, and
\* each one's id, with the oracle's own answer, is rejected by the other callback
C5_Witness ==
    \E m, c \in RequestIds :
        /\ IssuedFor(m, "handleMetricDecryption")
        /\ IssuedFor(c, "handleCategoryDecryption")
        /\ handleMetricDecryptionResult(c, Decryptions(c), "kms") = "Invalid request"
        /\ handleCategoryDecryptionResult(m, Decryptions(m), "kms") = "Unknown request"

\* C6: a requestCategoryDecryption call goes through only when the caller is
\* the manager.
C6_ManagerOnly ==
    last.op = "requestCategoryDecryption" => last.caller = "manager"

\* C7: an EncryptedMetric, once stored under an assigned id, is never changed
\* by any later call: its id, its three handles and its timestamp stay the same.
C7_EncryptedMetricImmutable ==
    [][\A id \in 1..metricCount : encryptedMetrics'[id] = encryptedMetrics[id]]_vars

\* C7 witness: both ids are assigned, the first was submitted before the
\* second, revealed, and a category callback went through since
C7_Witness ==
    /\ metricCount = 2
    /\ encryptedMetrics[1].id = 1
    /\ encryptedMetrics[1].timestamp < encryptedMetrics[2].timestamp
    /\ revealedMetrics[1].revealed
    /\ last.op = "handleCategoryDecryption"

\* a step is a submitEncryptedMetric call
SubmitStep == \E m \in MetricInputs : submitEncryptedMetric(m[1], m[2], m[3])

\* C8: the assigned ids are exactly 1..metricCount, each stored under its own
\* key; a submitEncryptedMetric call sets metricCount to its previous value
\* plus 1 and stores the metric under that value, which held no metric before;
\* no other call changes metricCount.
C8_MonotonicIds ==
    /\ [](\A id \in MetricIds :
            encryptedMetrics[id].id = (IF id \in 1..metricCount THEN id ELSE 0))
    /\ [][IF SubmitStep
             THEN /\ metricCount' = metricCount + 1
                  /\ encryptedMetrics[metricCount'].id = 0
                  /\ encryptedMetrics'[metricCount'].id = metricCount'
                  /\ last'.event = <<"MetricSubmitted", metricCount',
                                     encryptedMetrics'[metricCount'].timestamp>>
             ELSE metricCount' = metricCount]_vars

\* C8 witness: two submissions went through, the second just now
C8_Witness ==
    /\ metricCount = 2
    /\ last.op = "submitEncryptedMetric"
    /\ last.arg = 2

\* C9: no plaintext of a submitted metric is held in storage or returned by
\* getRevealedMetric: for every assigned id, none of the returned output,
\* hours, tasks is the decryption of the corresponding stored handle.
C9_NoPlaintextStored ==
    \A id \in 1..metricCount :
        /\ getRevealedMetric(id)[1] # Decrypt(encryptedMetrics[id].encryptedOutput)
        /\ getRevealedMetric(id)[2] # Decrypt(encryptedMetrics[id].encryptedHours)
        /\ getRevealedMetric(id)[3] # Decrypt(encryptedMetrics[id].encryptedTasks)

\* C10: the counter of "TaskCategory" is uninitialized while no
\* handleMetricDecryption call has gone through, and otherwise encrypts the
\* number of such calls so far, modulo 2^32; only a handleMetricDecryption
\* call that goes through changes a counter.
C10_CounterCountsReveals ==
    /\ [](IF RevealCount = 0
            THEN ~isInitialized(getEncryptedTaskCounter("TaskCategory"))
            ELSE /\ isInitialized(getEncryptedTaskCounter("TaskCategory"))
                 /\ getEncryptedTaskCounter("TaskCategory").ct = U32(RevealCount))
    /\ [][encryptedTaskCounters' # encryptedTaskCounters
          => /\ last'.op = "handleMetricDecryption"
             /\ RevealCount' = RevealCount + 1]_vars

\* C10 witness: both submitted metrics were revealed, the second just now,
\* and the counter decrypts to 2
C10_Witness ==
    /\ metricCount = 2
    /\ RevealCount = 2
    /\ revealedEvents[1] = 1
    /\ revealedEvents[2] = 1
    /\ Decrypt(getEncryptedTaskCounter("TaskCategory")) = 2
    /\ last.op = "handleMetricDecryption"

\* C11: given that every request id the library returns is new, an entry of
\* requestToMetricId or requestToCategoryHash that holds a non-zero value
\* holds that same value after every later call, the callback that consumes
\* it included; and a request that goes through writes the entry of an id
\* that no earlier request was given.
C11_EntriesWriteOnce ==
    [][/\ \A r \in RequestIds :
            /\ requestToMetricId[r] # 0 => requestToMetricId'[r] = requestToMetricId[r]
            /\ requestToCategoryHash[r] # 0
                  => requestToCategoryHash'[r] = requestToCategoryHash[r]
       /\ Len(decryptionRequests') > Len(decryptionRequests)
            => /\ ~Issued(NextRequestId)
               /\ \A r \in RequestIds \ {NextRequestId} :
                     /\ requestToMetricId'[r] = requestToMetricId[r]
                     /\ requestToCategoryHash'[r] = requestToCategoryHash[r]]_vars

\* C11 witness: both kinds of entry were recorded and both callbacks have
\* consumed theirs, the category one just now, and both entries are still there
C11_Witness ==
    \E m, c \in RequestIds :
        /\ requestToMetricId[m] # 0
        /\ revealedEvents[requestToMetricId[m]] > 0
        /\ requestToCategoryHash[c] = keccak256("TaskCategory")
        /\ last.op = "handleCategoryDecryption"
        /\ last.arg = c

\* the key list stored under "record_keys", as loadRecords and submitRecord read it
StoredKeys == KeysOf(getData(KeysKey))

\* record_<id> holds data; <id> is in the stored key list
Stored(id) == Len(getData(RecordKey(id))) > 0

Listed(id) == \E i \in 1..Len(StoredKeys) : StoredKeys[i] = id

\* an orphaned record: stored, and absent from the key list
Orphaned(id) == Stored(id) /\ ~Listed(id)

\* the submitRecord call of browser c has failed after its first write went
\* through and before its second write did
FailedBetweenWrites(c) ==
    submitting[c].pc = "failed" /\ submitting[c].at \in {"getKeys", "setKeys"}

\* the key list a call holds or wrote holds the id
Has(keys, id) == \E i \in 1..Len(keys) : keys[i] = id

\* a submitRecord call in flight may still list the id: the call that
\* generated it stands between its two writes, or a call's copy of the key
\* list, about to be written, holds it
Pending(id) ==
    \E c \in Accounts :
        \/ submitting[c].pc \in {"getKeys", "setKeys"} /\ submitting[c].recordId = id
        \/ submitting[c].pc = "setKeys" /\ Has(submitting[c].keys, id)

\* an orphaned record that no call in flight may still list
Abandoned(id) == Orphaned(id) /\ ~Pending(id)

\* C12: submitRecord writes record_<id> before it rewrites record_keys: until
\* its first write has gone through neither holds its id, and from then until
\* its second write goes through, a failure in between included, record_<id>
\* is stored while <id> is absent from record_keys; after such a failure no
\* call in flight may list the id, and a record in that state stays in it at
\* every later step of any browser.
C12_OrphanedRecord ==
    /\ [](\A c \in Accounts :
            /\ submitting[c].pc = "setRecord"
                 => ~Stored(submitting[c].recordId) /\ ~Listed(submitting[c].recordId)
            /\ submitting[c].pc \in {"getKeys", "setKeys"}
                 => Orphaned(submitting[c].recordId)
            /\ FailedBetweenWrites(c) => Abandoned(submitting[c].recordId))
    /\ [][\A id \in RecordIds : Abandoned(id) => Abandoned(id)']_fvars

\* C12 witness: one browser's submission failed between its writes, the
\* other browser's later submission went through and was loaded, and the
\* first one's record is still stored and still not listed
C12_Witness ==
    \E c, d \in Accounts :
        /\ FailedBetweenWrites(c)
        /\ Orphaned(submitting[c].recordId)
        /\ submitting[d].pc = "done"
        /\ submitting[d].recordId > submitting[c].recordId
        /\ Listed(submitting[d].recordId)
        /\ Len(records[d]) = 1

\* a key pointing to missing data: listed, and nothing stored under record_<id>
Dangling(id) == Listed(id) /\ ~Stored(id)

Succeeded(c) == submitting[c].pc \in {"loadRecords", "done"}

\* the calls of two browsers both read record_keys before either rewrote it:
\* neither read the other's id
ReadBeforeEitherWrote(c, d) ==
    /\ ~Has(submitting[c].keys, submitting[d].recordId)
    /\ ~Has(submitting[d].keys, submitting[c].recordId)

\* C14: when the submitRecord calls of two browsers both read record_keys
\* before either rewrites it and both go through, each sets its success
\* banner, and record_keys then holds exactly one of the two new ids: the
\* other record is stored but not listed.
C14_LostUpdate ==
    /\ [](\A c, d \in Accounts :
            (c # d /\ Succeeded(c) /\ Succeeded(d) /\ ReadBeforeEitherWrote(c, d))
            => /\ Listed(submitting[c].recordId) # Listed(submitting[d].recordId)
               /\ Stored(submitting[c].recordId)
               /\ Stored(submitting[d].recordId))
    /\ [][\A c \in Accounts :
            (submitting[c].pc = "setKeys" /\ Succeeded(c)')
            => transactionStatus'[c] =
                  Banner("success", "Encrypted productivity data submitted!")]_fvars

\* C14 witness: both browsers' calls are over, both went through, both read
\* record_keys before either wrote, and the first one's id is not listed
C14_Witness ==
    \E c, d \in Accounts :
        /\ c # d
        /\ submitting[c].pc = "done"
        /\ submitting[d].pc = "done"
        /\ ReadBeforeEitherWrote(c, d)
        /\ Orphaned(submitting[c].recordId)
        /\ Listed(submitting[d].recordId)

\* the entry that loadRecords should make of the record a submitRecord call wrote
WrittenEntry(c) ==
    [id |-> submitting[c].recordId,
     encryptedData |-> submitting[c].recordData.data,
     timestamp |-> submitting[c].recordData.timestamp,
     owner |-> submitting[c].recordData.owner,
     workType |-> submitting[c].recordData.workType,
     productivityScore |-> submitting[c].recordData.productivityScore]

\* the loadRecords call that submitRecord awaits after its two writes has returned
LoadedAfterSubmit(c) ==
    submitting[c].pc = "loadRecords" /\ loadingRecords[c].pc = "returned"

HasWrittenEntry(c) == \E i \in 1..Len(records[c]) : records[c][i] = WrittenEntry(c)

Descending(list) ==
    \A i \in 1..(Len(list) - 1) : list[i].timestamp >= list[i + 1].timestamp

\* C16: the records list is in descending order of timestamp whenever
\* loadRecords has set it: for every two adjacent entries the earlier one's
\* timestamp is greater than or equal to the later one's. (A loadRecords call
\* that fails leaves the list as the last call set it.)
C16_SortedByTimestamp ==
    /\ [](Descending(records["employee"]))
    /\ [][records'["employee"] # records["employee"]
          => loadingRecords["employee"].pc \in {"getKeys", "getRecord"}]_fvars

\* C16 witness: a loadRecords call has just set a list of two entries, which
\* record_keys lists oldest first, and the newer one comes first
C16_Witness ==
    /\ Len(records["employee"]) = 2
    /\ StoredKeys = <<1, 2>>
    /\ records["employee"][1].id = 2
    /\ records["employee"][1].timestamp > records["employee"][2].timestamp
    /\ loadingRecords["employee"].pc = "idle"

\* the banner of browser c is visible with status "error"
ErrorShown(c) == transactionStatus[c].visible /\ transactionStatus[c].status = "error"

\* a step in which a contract call made by submitRecord fails
SubmitCallFails(c) ==
    \E outcome \in {"throws", "rejected"} :
        \/ SubmitSetRecord(c, outcome)
        \/ SubmitGetKeys(c, outcome)
        \/ SubmitSetKeys(c, outcome)

\* a step in which a contract call made by checkContractAvailability fails
CheckCallFails(c) ==
    checkContractAvailability(c, "throws") \/ CheckIsAvailable(c, "throws")

\* a step in which a contract call made by loadRecords fails
LoadCallFails(c) == LoadGetKeys(c, "throws") \/ LoadGetRecord(c, "throws")

\* C17 as stated: a step in which a contract call made by loadRecords,
\* submitRecord or checkContractAvailability fails leaves the banner visible
\* with status "error".
C17_EveryFailureShown ==
    [][(\/ LoadCallFails("employee")
        \/ SubmitCallFails("employee")
        \/ CheckCallFails("employee"))
       => ErrorShown("employee")']_fvars

\* C17, amended: a step in which a contract call made by submitRecord or
\* checkContractAvailability fails leaves the banner visible with status
\* "error"; a step in which a contract call made by loadRecords fails leaves
\* the banner as it was.
C17_SubmitAndCheckFailuresShown ==
    [][/\ (SubmitCallFails("employee") \/ CheckCallFails("employee"))
          => ErrorShown("employee")'
       /\ LoadCallFails("employee")
          => transactionStatus'["employee"] = transactionStatus["employee"]]_fvars

\* C17 witness: a submitRecord call has failed at a contract call and the
\* banner shows the error, while the timeout of an earlier error banner is
\* still pending
C17_Witness ==
    /\ submitting["employee"].pc = "failed"
    /\ submitting["employee"].at = "setKeys"
    /\ ErrorShown("employee")
    /\ transactionStatus["employee"].message = "Transaction rejected by user"
    /\ timers["employee"].hide = 2

\* C18: whenever the banner is visible (pending, success or error, set by
\* submitRecord or by checkContractAvailability), it is hidden again at some
\* later time, with no step of the user needed, provided the pending contract
\* calls complete and the timeouts set run.
C18_BannerTransient ==
    transactionStatus["employee"].visible ~> ~transactionStatus["employee"].visible

\* C18 witness: a submission went through, its banner was shown, and every
\* timeout set has run: the banner is hidden
C18_Witness ==
    /\ submitting["employee"].pc = "done"
    /\ Len(records["employee"]) = 1
    /\ timers["employee"] = NoTimers
    /\ checking["employee"] = "idle"
    /\ ~transactionStatus["employee"].visible

\* how many times an id occurs in a list of ids
Occurrences(ids, id) == Cardinality({i \in 1..Len(ids) : ids[i] = id})

\* the ids of the entries of a list of records, in order
IdsOf(list) == [i \in 1..Len(list) |-> list[i].id]

\* the blob under record_<id> is non-empty and parses
Parseable(id) ==
    Len(getData(RecordKey(id))) > 0 /\ Parses(toUtf8String(getData(RecordKey(id))))

\* ... and parses to something other than null
Readable(id) == Parseable(id) /\ toUtf8String(getData(RecordKey(id))).syntax # "null"

\* a loadRecords call of the browser completes in this step with none of its
\* contract calls having failed
LoadCompletes ==
    /\ ~loadingRecords["employee"].error
    /\ LoadGetKeys("employee", "ok") \/ LoadGetRecord("employee", "ok")
    /\ loadingRecords'["employee"].pc = "idle"

\* the list has one entry per listed occurrence of every id among `good`,
\* and none for any other id
OneEntryPerKey(list, good) ==
    \A id \in RecordIds :
        Occurrences(IdsOf(list), id)
          = (IF id \in good THEN Occurrences(StoredKeys, id) ELSE 0)

SubmittedForm(c) == submitting[c].recordData.data.base64

\* C20: for every form within the inputs' bounds (hoursWorked 1..16,
\* tasksCompleted 0..50, distractions 0..20) the productivityScore that
\* submitRecord writes is the integer n nearest to
\* x = tasksCompleted / hoursWorked * 10 - distractions * 0.5, a half going
\* up (2n - 1 <= 2x < 2n + 1), and equals
\* floor((20*tasksCompleted - distractions*hoursWorked + hoursWorked) / (2*hoursWorked)).
C20_ScoreFormula ==
    \A c \in Accounts :
        submitting[c].pc = "setRecord"
        => LET h == ToNumber(SubmittedForm(c).hoursWorked)
               t == ToNumber(SubmittedForm(c).tasksCompleted)
               d == ToNumber(SubmittedForm(c).distractions)
               n == submitting[c].recordData.productivityScore
           IN  /\ h \in HoursRange /\ t \in TasksRange /\ d \in DistractionsRange
               /\ (2 * n - 1) * h <= 20 * t - d * h
               /\ 20 * t - d * h < (2 * n + 1) * h
               /\ n = (20 * t - d * h + h) \div (2 * h)

\* C20 witness: a form typed in, with the value -1.5 exactly between two
\* integers, has been submitted and its score is -1
C20_Witness ==
    /\ submitting["employee"].pc = "setRecord"
    /\ SubmittedForm("employee").hoursWorked = Str(16)
    /\ SubmittedForm("employee").tasksCompleted = Str(0)
    /\ SubmittedForm("employee").distractions = Str(3)
    /\ submitting["employee"].recordData.productivityScore = -1

\* C21: a handleMetricDecryption call that goes through and emits
\* MetricRevealed(m) was called with a request id that the library returned to
\* requestMetricDecryption and under which requestToMetricId holds m, m not 0;
\* and an entry of requestToMetricId comes to hold m only in a
\* requestMetricDecryption(m) call that goes through, emits
\* MetricDecryptionRequested(m) and is given that request id.  So every
\* MetricRevealed(m) comes after a MetricDecryptionRequested(m).
C21_RevealFollowsRequest ==
    [][/\ revealedEvents' # revealedEvents
            => /\ last'.op = "handleMetricDecryption"
               /\ IssuedFor(last'.arg, "handleMetricDecryption")
               /\ requestToMetricId[last'.arg] # 0
               /\ last'.event = <<"MetricRevealed", requestToMetricId[last'.arg]>>
               /\ revealedEvents' =
                      [revealedEvents EXCEPT ![requestToMetricId[last'.arg]] = @ + 1]
       /\ \A r \in RequestIds :
             requestToMetricId'[r] # requestToMetricId[r]
             => /\ r = NextRequestId
                /\ last' = Call("requestMetricDecryption", "anyone", requestToMetricId'[r],
                                <<"MetricDecryptionRequested", requestToMetricId'[r]>>)]_vars

\* C21 witness: requests were made for metric 1 and then for metric 2, and the
\* callback of the second request has just revealed metric 2
C21_Witness ==
    /\ requestToMetricId[0] = 1
    /\ requestToMetricId[1] = 2
    /\ last = Call("handleMetricDecryption", "anyone", 1, <<"MetricRevealed", 2>>)
    /\ revealedEvents[2] = 1
    /\ revealedMetrics[2].revealed

\* a step is a requestMetricDecryption call that went through
MetricRequestStep ==
    /\ Len(decryptionRequests') > Len(decryptionRequests)
    /\ last'.op = "requestMetricDecryption"

\* C22: requestMetricDecryption(metricId) is rejected with "Already revealed"
\* exactly when revealedMetrics[metricId].revealed is true, and a rejected call
\* issues no request and records no entry: every request that is issued and
\* every entry that is recorded is for a metric whose flag is false.  While the
\* flag is false each call issues one request and records the metric id under
\* the new request id, leaving the entries of earlier requests in place.
C22_RevealedMetricNotRequested ==
    /\ [](\A metricId \in MetricIds :
            requestMetricDecryptionResult(metricId) =
                (IF revealedMetrics[metricId].revealed THEN "Already revealed" ELSE "ok"))
    /\ [][/\ MetricRequestStep
               => /\ ~revealedMetrics[last'.arg].revealed
                  /\ Len(decryptionRequests') = Len(decryptionRequests) + 1
                  /\ requestToMetricId' =
                        [requestToMetricId EXCEPT ![NextRequestId] = last'.arg]
          /\ requestToMetricId' # requestToMetricId => MetricRequestStep]_vars

\* C22 witness: two requests for metric 1 went through and each recorded its
\* entry; the metric has since been revealed and a third request is rejected
C22_Witness ==
    /\ metricCount >= 1
    /\ requestToMetricId[0] = 1
    /\ requestToMetricId[1] = 1
    /\ IssuedFor(0, "handleMetricDecryption")
    /\ IssuedFor(1, "handleMetricDecryption")
    /\ revealedMetrics[1].revealed
    /\ requestMetricDecryptionResult(1) = "Already revealed"

\* the decryptions of the three handles stored in encryptedMetrics[id], in
\* the order output, hours, tasks
StoredDecryptions(id) ==
    <<Decrypt(encryptedMetrics[id].encryptedOutput),
      Decrypt(encryptedMetrics[id].encryptedHours),
      Decrypt(encryptedMetrics[id].encryptedTasks)>>

\* C23: with callbacks accepted only for the oracle's decryptions of the
\* handles a request was made with (checkSignatures), whenever
\* revealedMetrics[id].revealed is true the stored output, hours and tasks are
\* the decryptions of the encryptedOutput, encryptedHours and encryptedTasks
\* handles stored in encryptedMetrics[id], in that order.
C23_RevealedIsDecryptionOfStored ==
    \A id \in MetricIds :
        revealedMetrics[id].revealed
        => <<revealedMetrics[id].output, revealedMetrics[id].hours,
             revealedMetrics[id].tasks>> = StoredDecryptions(id)

\* C24: every non-zero value held in requestToCategoryHash is the hash of an
\* entry of taskCategories, so the loop of _categoryFromHash finds it: no
\* handleCategoryDecryption call, whatever its request id, cleartexts and
\* proof, is rejected with "Category not found".
C24_RecordedHashIsOfListedCategory ==
    \A requestId \in RequestIds :
        /\ requestToCategoryHash[requestId] # 0
             => /\ \E i \in 1..Len(taskCategories) :
                      keccak256(taskCategories[i]) = requestToCategoryHash[requestId]
                /\ _categoryFromHash(requestToCategoryHash[requestId]) # 0
        /\ \A proof \in Proofs :
              \A cleartexts \in Cleartexts(requestId) :
                 handleCategoryDecryptionResult(requestId, cleartexts, proof)
                    # "Category not found"

\* C24 witness: a category request was recorded and its callback, called
\* with the oracle's answer, has just gone through and named the category
C24_Witness ==
    \E requestId \in RequestIds :
        /\ requestToCategoryHash[requestId] = keccak256("TaskCategory")
        /\ IssuedFor(requestId, "handleCategoryDecryption")
        /\ last.op = "handleCategoryDecryption"
        /\ last.arg = requestId
        /\ last.event[2] = "TaskCategory"
        /\ handleCategoryDecryptionResult(requestId, Decryptions(requestId), "kms") = "ok"

\* a step is a handleCategoryDecryption call, gone through or rejected
CategoryCallbackStep ==
    \E requestId \in RequestIds, proof \in Proofs :
        \E cleartexts \in Cleartexts(requestId) :
            handleCategoryDecryption(requestId, cleartexts, proof)

\* the callback, called with the oracle's answer for the request id, goes through
CategoryCallbackAccepted(requestId) ==
    /\ Issued(requestId)
    /\ handleCategoryDecryptionResult(requestId, Decryptions(requestId), "kms") = "ok"

\* C27: a handleCategoryDecryption call, gone through or rejected, leaves
\* metricCount, encryptedMetrics, revealedMetrics, the category counters,
\* taskCategories, requestToMetricId and requestToCategoryHash as they were;
\* and a request id the callback accepts is accepted again after every later
\* call, a handleCategoryDecryption call that used it included.
C27_CategoryCallbackWritesNothing ==
    [][/\ CategoryCallbackStep => storage' = storage
       /\ \A requestId \in RequestIds :
             CategoryCallbackAccepted(requestId) => CategoryCallbackAccepted(requestId)']_vars

\* C27 witness: two metrics are stored, one is revealed, and the category
\* callback has just gone through with count 1 for a request id that it
\* still accepts
C27_Witness ==
    \E requestId \in RequestIds :
        /\ metricCount = 2
        /\ last = Call("handleCategoryDecryption", "anyone", requestId,
                       <<"CategoryCountDecrypted", "TaskCategory", 1>>)
        /\ requestToCategoryHash[requestId] # 0
        /\ CategoryCallbackAccepted(requestId)

\* the list a blob of "record_keys" stands for: its elements in order when it
\* is the JSON text of an array, none when it is empty or no JSON
ListRead(keysBytes) ==
    IF keysBytes = NoBytes THEN <<>>
    ELSE IF ~Parses(keysBytes[1]) THEN <<>>
    ELSE keysBytes[1].members

\* C25: when submitRecord's read of "record_keys" returns and the call goes
\* on, the value read is empty, no JSON or the JSON text of an array, and the
\* list the call holds is the list read (the empty list in the first two
\* cases) with its new record id appended at the end; when its second write
\* goes through, "record_keys" holds the JSON text of exactly that list,
\* whatever other browsers have written in between, and no other key of the
\* store changes.
C25_AppendsOneId ==
    [][\A c \in Accounts :
          /\ (submitting[c].pc = "getKeys" /\ submitting'[c].pc = "setKeys")
                => /\ data[KeysKey] = NoBytes \/ data[KeysKey][1].syntax # "null"
                   /\ submitting'[c].keys =
                         Append(ListRead(data[KeysKey]), submitting[c].recordId)
                   /\ Len(submitting'[c].keys) = Len(ListRead(data[KeysKey])) + 1
          /\ (submitting[c].pc = "setKeys" /\ submitting'[c].pc = "loadRecords")
                => /\ ListRead(data'[KeysKey]) = submitting[c].keys
                   /\ data'[KeysKey] # NoBytes
                   /\ data'[KeysKey][1].syntax = "array"
                   /\ \A k \in StorageKeys \ {KeysKey} : data'[k] = data[k]]_fvars

\* C25 witness: a call read a key list of two entries, both the id of an
\* earlier submission, and its second write has gone through: "record_keys"
\* holds those two entries followed by the call's new id
C25_Witness ==
    \E c \in Accounts :
        /\ submitting[c].pc \in {"loadRecords", "done"}
        /\ submitting[c].recordId = 2
        /\ submitting[c].keys = <<1, 1, 2>>
        /\ ListRead(getData(KeysKey)) = <<1, 1, 2>>

\* the submitRecord call of a browser stands between its pending banner and
\* its success or error banner: one of its three contract calls is awaited
AwaitingSubmission(c) == submitting[c].pc \in {"setRecord", "getKeys", "setKeys"}

\* C26: while a submitRecord call is in progress, from its pending banner to
\* its success or error banner, creating is true and the banner is visible:
\* no timeout set by an earlier checkContractAvailability or submitRecord
\* call hides it.
C26_BannerVisibleWhileSubmitting ==
    \A c \in Accounts :
        AwaitingSubmission(c) => creating[c] /\ transactionStatus[c].visible

====
